---- MODULE Spec2Model ----
(***************************************************************************)
(* Model of gae_dashboard/email_bq_data.py: the snapshot store, the        *)
(* history aggregation, the table shaping, the sparkline renderer and the  *)
(* report functions built on them.                                         *)
(*                                                                         *)
(* Python values are tagged records [t, v]; a row (a dict of the query     *)
(* result) is a function from field names to tagged values; a float is an  *)
(* exact reduced fraction <<numerator, denominator>>.                      *)
(***************************************************************************)
EXTENDS Integers, Sequences, FiniteSets, TLC

VARIABLES
    files,          \* the files under _DATA_DIRECTORY: filename -> pickle
    dir_exists,     \* os.path.isdir(_DATA_DIRECTORY)
    pc,             \* position of the running function
    date,           \* the day the report is run for (ordinal day of 2014)
    data,           \* the local 'data' of the report function
    historical_data,\* the local 'historical_data' of the report function
    email_content,  \* the tables handed to _send_email
    sent,           \* what _send_email made of the tables
    io_log,         \* the store accesses of the current run, in order
    gnuplot_runs,   \* the scripts given to the gnuplot subprocesses started
    arg,            \* the argument of the function under study
    result,         \* the value it returned
    saves           \* the number of snapshots saved so far

vars == <<files, dir_exists, pc, date, data, historical_data, email_content,
          sent, io_log, gnuplot_runs, arg, result, saves>>

----------------------------------------------------------------------------
(* Python values *)

RECURSIVE GCD(_, _)
GCD(a, b) == IF b = 0 THEN a ELSE GCD(b, a % b)

Abs(n) == IF n < 0 THEN -n ELSE n

\* the fraction n/d in lowest terms with a positive denominator
Frac(n, d) ==
    LET g == GCD(Abs(n), Abs(d))
        s == IF d < 0 THEN -1 ELSE 1
    IN  <<(s * n) \div g, (s * d) \div g>>

I(n) == [t |-> "int", v |-> n]
F(n, d) == [t |-> "float", v |-> Frac(n, d)]
S(s) == [t |-> "str", v |-> s]
L(seq) == [t |-> "list", v |-> seq]
None == [t |-> "None", v |-> 0]

\* the numeric value of an int or a float, as a fraction
Num(x) == IF x.t = "int" THEN <<x.v, 1>> ELSE x.v

\* a / b, always a float: every division of the reports has a float operand
Div(a, b) ==
    LET x == Num(a)
        y == Num(b)
    IN  F(x[1] * y[2], x[2] * y[1])

Mul(a, b) ==
    LET x == Num(a)
        y == Num(b)
    IN  F(x[1] * y[1], x[2] * y[2])

Add(a, b) ==
    LET x == Num(a)
        y == Num(b)
    IN  F(x[1] * y[2] + y[1] * x[2], x[2] * y[2])

\* the elements of a finite set in the order of iteration (one fixed order)
RECURSIVE SetToSeq(_)
SetToSeq(set) ==
    IF set = {} THEN <<>>
    ELSE LET e == CHOOSE e \in set : TRUE
         IN  <<e>> \o SetToSeq(set \ {e})

\* dict.items(): the (key, value) pairs of a row
Items(row) == LET keys == SetToSeq(DOMAIN row)
              IN  [i \in 1..Len(keys) |-> <<keys[i], row[keys[i]]>>]

----------------------------------------------------------------------------
(* cPickle.dump / cPickle.load (protocol 0), as a stream of opcodes and    *)
(* the stack machine that reads it                                         *)

Op(op, val) == [op |-> op, val |-> val]

DumpValue(x) ==
    CASE x.t = "int" -> <<Op("INT", x.v)>>
      [] x.t = "float" -> <<Op("FLOAT", x.v)>>
      [] x.t = "str" -> <<Op("STRING", x.v)>>
      [] x.t = "None" -> <<Op("NONE", 0)>>

RECURSIVE DumpItems(_, _)
DumpItems(items, i) ==
    IF i > Len(items) THEN <<>>
    ELSE <<Op("STRING", items[i][1])>> \o DumpValue(items[i][2])
         \o <<Op("SETITEM", 0)>> \o DumpItems(items, i + 1)

DumpDict(row) == <<Op("MARK", 0), Op("DICT", 0)>> \o DumpItems(Items(row), 1)

RECURSIVE DumpRows(_, _)
DumpRows(rows, i) ==
    IF i > Len(rows) THEN <<>>
    ELSE DumpDict(rows[i]) \o <<Op("APPEND", 0)>> \o DumpRows(rows, i + 1)

cPickle_dump(rows) ==
    <<Op("MARK", 0), Op("LIST", 0)>> \o DumpRows(rows, 1) \o <<Op("STOP", 0)>>

Mark == [t |-> "mark", v |-> 0]
Push(stack, x) == Append(stack, x)
Top(stack) == stack[Len(stack)]
Pop(stack, n) == SubSeq(stack, 1, Len(stack) - n)

\* the stack after one opcode
Step(o, stack) ==
    LET n == Len(stack)
    IN  CASE o.op = "MARK" -> Push(stack, Mark)
          [] o.op = "LIST" -> Push(Pop(stack, 1), L(<<>>))
          [] o.op = "DICT" -> Push(Pop(stack, 1), [t |-> "dict", v |-> <<>>])
          [] o.op = "INT" -> Push(stack, I(o.val))
          [] o.op = "FLOAT" -> Push(stack, [t |-> "float", v |-> o.val])
          [] o.op = "STRING" -> Push(stack, S(o.val))
          [] o.op = "NONE" -> Push(stack, None)
          [] o.op = "SETITEM" ->
                LET d == stack[n - 2]
                    k == stack[n - 1].v
                    x == stack[n]
                    new == [f \in DOMAIN d.v \cup {k} |->
                               IF f = k THEN x ELSE d.v[f]]
                IN  Push(Pop(stack, 3), [t |-> "dict", v |-> new])
          [] o.op = "APPEND" ->
                LET l == stack[n - 1]
                IN  Push(Pop(stack, 2), L(Append(l.v, stack[n].v)))

\* the stack after the opcodes i..j: after those of the second half, for
\* the stack after those of the first half
RECURSIVE LoadFrom(_, _, _, _)
LoadFrom(ops, i, j, stack) ==
    IF i > j THEN stack
    ELSE IF i = j THEN Step(ops[i], stack)
    ELSE LET mid == (i + j) \div 2
         IN  CHOOSE after \in {LoadFrom(ops, mid + 1, j, half) :
                                  half \in {LoadFrom(ops, i, mid, stack)}} :
                 TRUE

\* the value on top of the stack at the first STOP
cPickle_load(ops) ==
    LET stop == CHOOSE i \in 1..Len(ops) :
                    /\ ops[i].op = "STOP"
                    /\ \A k \in 1..(i - 1) : ops[k].op # "STOP"
    IN  Top(LoadFrom(ops, 1, stop - 1, <<>>)).v

----------------------------------------------------------------------------
(* dates: datetime objects of the year 2014, as the ordinal day of the year *)

DaysInMonth == <<31, 28, 31, 30, 31, 30, 31, 31, 30, 31, 30, 31>>

RECURSIVE MonthOf(_, _)
MonthOf(ordinal, m) ==
    IF ordinal <= DaysInMonth[m] THEN <<m, ordinal>>
    ELSE MonthOf(ordinal - DaysInMonth[m], m + 1)

\* texts that the program slices or sorts are sequences of characters
RECURSIVE Str(_)
Str(chars) == IF chars = <<>> THEN "" ELSE Head(chars) \o Str(Tail(chars))

Pad2(n) == <<ToString(n \div 10), ToString(n % 10)>>

\* date.strftime("%Y%m%d")
strftime(d) == LET md == MonthOf(d, 1)
               IN  <<"2", "0", "1", "4">> \o Pad2(md[1]) \o Pad2(md[2])

_pretty_date(yyyymmdd) ==
    SubSeq(yyyymmdd, 1, 4) \o <<"-">> \o SubSeq(yyyymmdd, 5, 6) \o <<"-">>
    \o SubSeq(yyyymmdd, 7, 8)

\* date - datetime.timedelta(i)
MinusDays(d, i) == d - i

----------------------------------------------------------------------------
(* the snapshot store *)

_DATA_DIRECTORY == "bq_data/"

\* a file name made of the report alone: one file for all the days
_get_data_filename_report(report, yyyymmdd) ==
    _DATA_DIRECTORY \o report \o ".pickle"

_get_data_filename(report, yyyymmdd) ==
    _DATA_DIRECTORY \o report \o "_" \o Str(yyyymmdd) \o ".pickle"

\* the value returned by _get_past_data on the file system fs
_get_past_data(fs, report, yyyymmdd) ==
    LET filename == _get_data_filename(report, yyyymmdd)
    IN  IF filename \notin DOMAIN fs THEN None
        ELSE L(cPickle_load(fs[filename]))

\* _save_daily_data that does not clobber: the file opened for appending,
\* so that a load still reads the pickle that was there first
_save_daily_data_append(fs, rows, report, yyyymmdd) ==
    LET filename == _get_data_filename(report, yyyymmdd)
    IN  [f \in DOMAIN fs \cup {filename} |->
            IF f \in DOMAIN fs THEN fs[f] ELSE cPickle_dump(rows)]

\* the file system after _save_daily_data
_save_daily_data(fs, rows, report, yyyymmdd) ==
    LET filename == _get_data_filename(report, yyyymmdd)
    IN  [f \in DOMAIN fs \cup {filename} |->
            IF f = filename THEN cPickle_dump(rows) ELSE fs[f]]

----------------------------------------------------------------------------
(* the history aggregator *)

\* the truth value of a Python object in a condition
Truthy(x) ==
    CASE x.t = "None" -> FALSE
      [] x.t = "list" -> x.v # <<>>
      [] x.t = "str" -> x.v # ""
      [] x.t = "int" -> x.v # 0
      [] x.t = "float" -> x.v[1] # 0
      [] x.t = "dict" -> DOMAIN x.v # {}
      [] OTHER -> TRUE

EmptyDict == <<>>

\* d.get(k)
DictGet(d, k) == IF k \in DOMAIN d THEN d[k] ELSE None

\* {keys[i]: rows[i] for i ...}: a later row replaces an earlier one
DictOf(keys, rows, n) ==
    [k \in {keys[i] : i \in 1..n} |->
        rows[CHOOSE i \in 1..n :
                /\ keys[i] = k
                /\ \A j \in (i + 1)..n : keys[j] # k]]

\* historical_data.reverse() left out
Reverse_left_out(seq) == seq

Reverse(seq) == [i \in 1..Len(seq) |-> seq[Len(seq) + 1 - i]]

\* keyfn(row): the key functions of the reports are lambdas that return
\* one field of the row or a tuple of fields; a key function is given by
\* the names of these fields
Call(keyfn, row) ==
    IF Len(keyfn) = 1 THEN row[keyfn[1]]
    ELSE [n \in 1..Len(keyfn) |-> row[keyfn[n]]]

_process_past_data(fs, report, end_date, history_length, keyfn) ==
    LET day(i) ==
            LET old_yyyymmdd == strftime(MinusDays(end_date, i))
                old_data == _get_past_data(fs, report, old_yyyymmdd)
            IN  IF Truthy(old_data)
                THEN DictOf([r \in 1..Len(old_data.v) |->
                                Call(keyfn, old_data.v[r])],
                            [r \in 1..Len(old_data.v) |->
                                [t |-> "dict", v |-> old_data.v[r]]],
                            Len(old_data.v))
                ELSE EmptyDict
        \* xrange(history_length + 1), most recent day first
        historical == [i \in 1..(history_length + 1) |-> day(i - 1)]
    IN  Reverse(historical)

----------------------------------------------------------------------------
(* the table shaper *)

Range(seq) == {seq[i] : i \in 1..Len(seq)}

ValueError == [ok |-> FALSE, error |-> "ValueError"]
Return(x) == [ok |-> TRUE, value |-> x]

\* order.index(k), for a k that occurs in order
index(order, k) ==
    CHOOSE i \in 1..Len(order) :
        /\ order[i] = k
        /\ \A j \in 1..(i - 1) : order[j] # k

\* one item put into an already sorted list, behind the items whose key is
\* not larger (list.sort is stable)
RECURSIVE InsertItem(_, _, _)
InsertItem(sorted, item, order) ==
    IF sorted = <<>> THEN <<item>>
    ELSE IF index(order, Head(sorted)[1]) <= index(order, item[1])
         THEN <<Head(sorted)>> \o InsertItem(Tail(sorted), item, order)
         ELSE <<item>> \o sorted

\* the sort left out: the items in the order of the dict
SortItems_left_out(items, order) == items

\* row_contents.sort(key=lambda (k, v): order.index(k))
RECURSIVE SortItems(_, _)
SortItems(items, order) ==
    IF items = <<>> THEN <<>>
    ELSE InsertItem(SortItems(SubSeq(items, 1, Len(items) - 1), order),
                    items[Len(items)], order)

\* [v for (k, v) in row_contents]
RowList(row, order) ==
    LET row_contents == SortItems(Items(row), order)
    IN  [j \in 1..Len(row_contents) |-> row_contents[j][2]]

\* list(order), the header row
HeaderRow(order) == [j \in 1..Len(order) |-> S(order[j])]

\* a shaper that drops the fields the order does not name instead of
\* failing on them
_convert_table_rows_to_lists_lenient(table, order) ==
    Return(<<HeaderRow(order)>>
           \o [i \in 1..Len(table) |->
                  RowList([k \in DOMAIN table[i] \cap Range(order) |->
                              table[i][k]], order)])

_convert_table_rows_to_lists(table, order) ==
    IF \E i \in 1..Len(table) : \E k \in DOMAIN table[i] : k \notin Range(order)
    THEN ValueError     \* order.index(k) raises
    ELSE Return(<<HeaderRow(order)>>
                \o [i \in 1..Len(table) |-> RowList(table[i], order)])

----------------------------------------------------------------------------
(* the sparkline renderer *)

OSError == [ok |-> FALSE, error |-> "OSError"]

\* what starting gnuplot can come to: it writes a PNG, it writes nothing,
\* or the program cannot be started
GnuplotOutcomes == {"png", "empty", "oserror"}

\* a < b for ints and floats
Less(a, b) == Num(a)[1] * Num(b)[2] < Num(b)[1] * Num(a)[2]

\* max(existing_data), for a non-empty list
Max(seq) ==
    seq[CHOOSE i \in 1..Len(seq) :
            /\ \A j \in 1..Len(seq) : ~Less(seq[i], seq[j])
            /\ \A j \in 1..(i - 1) : Less(seq[j], seq[i])]

\* a script whose vertical range is taken from the newest sample instead
\* of the largest
GnuplotScript_newest(series, existing_data) ==
    [ymax |-> Mul(F(105, 100), existing_data[Len(existing_data)]),
     ymin |-> Mul(F(-5, 100), existing_data[Len(existing_data)]),
     xmin |-> 1,
     xmax |-> Len(series),
     data_lines |-> [n \in 1..Len(series) |->
                        IF series[n] = None
                        THEN [t |-> "blank", v |-> 0]
                        \* enumerate(data) counts from 0
                        ELSE [t |-> "point", v |-> <<n - 1, series[n]>>]]]

\* the text gnuplot reads: the ranges and the lines of the inline data
GnuplotScript(series, existing_data) ==
    [ymax |-> Mul(F(105, 100), Max(existing_data)),
     ymin |-> Mul(F(-5, 100), Max(existing_data)),
     xmin |-> 1,
     xmax |-> Len(series),
     data_lines |-> [n \in 1..Len(series) |->
                        IF series[n] = None
                        THEN [t |-> "blank", v |-> 0]
                        \* enumerate(data) counts from 0
                        ELSE [t |-> "point", v |-> <<n - 1, series[n]>>]]]

\* the PNG gnuplot draws from a script
Png(script) == [t |-> "png", v |-> script]

\* subprocess.Popen(['gnuplot'], ...).communicate(gnuplot_script)
Gnuplot(gnuplot_script, outcome) ==
    CASE outcome = "oserror" -> [ok |-> FALSE, error |-> "OSError",
                                 run |-> <<>>]
      [] outcome = "empty" -> [ok |-> TRUE, value |-> S(""),
                               run |-> <<gnuplot_script>>]
      [] outcome = "png" -> [ok |-> TRUE, value |-> Png(gnuplot_script),
                             run |-> <<gnuplot_script>>]

\* [datum for datum in data if datum is not None]
Existing(series) == SelectSeq(series, LAMBDA datum : datum # None)

\* a renderer that is content with two samples
_render_sparkline_two(series, outcome) ==
    IF Len(Existing(series)) < 2
    THEN [ok |-> TRUE, value |-> None, run |-> <<>>]
    ELSE Gnuplot(GnuplotScript(series, Existing(series)), outcome)

\* the value returned and the gnuplot processes started (run: the scripts)
_render_sparkline(series, outcome) ==
    IF Len(Existing(series)) < 3
    THEN [ok |-> TRUE, value |-> None, run |-> <<>>]
    ELSE Gnuplot(GnuplotScript(series, Existing(series)), outcome)

----------------------------------------------------------------------------
(* the report composer and mailer *)

\* the characters of the headings, in the order of their character codes
Ascii ==
    <<" ", "-", "0", "1", "2", "3", "4", "5", "6", "7", "8", "9",
      "A", "B", "C", "D", "E", "F", "G", "H", "I", "J", "K", "L", "M",
      "N", "O", "P", "Q", "R", "S", "T", "U", "V", "W", "X", "Y", "Z",
      "a", "b", "c", "d", "e", "f", "g", "h", "i", "j", "k", "l", "m",
      "n", "o", "p", "q", "r", "s", "t", "u", "v", "w", "x", "y", "z">>

ord(c) == CHOOSE n \in 1..Len(Ascii) : Ascii[n] = c

\* a < b for two texts
RECURSIVE StrLess(_, _)
StrLess(a, b) ==
    IF b = <<>> THEN FALSE
    ELSE IF a = <<>> THEN TRUE
    ELSE IF Head(a) = Head(b) THEN StrLess(Tail(a), Tail(b))
    ELSE ord(Head(a)) < ord(Head(b))

\* sorted(tables.iteritems()): the headings in ascending order
RECURSIVE Sorted(_)
Sorted(headings) ==
    IF headings = {} THEN <<>>
    ELSE LET least == CHOOSE h \in headings :
                          \A other \in headings \ {h} : StrLess(h, other)
         IN  <<least>> \o Sorted(headings \ {least})

\* the sequences of a sequence, one after the other
RECURSIVE Flatten(_)
Flatten(seqs) ==
    IF seqs = <<>> THEN <<>>
    ELSE IF Len(seqs) = 1 THEN seqs[1]
    ELSE LET mid == Len(seqs) \div 2
         IN  Flatten(SubSeq(seqs, 1, mid))
             \o Flatten(SubSeq(seqs, mid + 1, Len(seqs)))

\* '%.2f' % col: the number of hundredths nearest to the float
Fmt2(col) ==
    LET n == col.v[1]
        d == col.v[2]
        h == (2 * 100 * Abs(n) + d) \div (2 * d)
    IN  [t |-> "%.2f", v |-> IF n < 0 THEN -h ELSE h]

Tag(tag, style, text) == [tag |-> tag, style |-> style, text |-> text]

\* the <td> of a list cell, given what _render_sparkline made of the list
SparklineCell(image) ==
    IF ~image.ok
    THEN [ok |-> FALSE, run |-> image.run, images |-> <<>>, td |-> None]
    ELSE IF Truthy(image.value)
    THEN [ok |-> TRUE, run |-> image.run, images |-> <<image.value>>,
          td |-> Tag("td", "padding: 0px; text-align: center;", S("%s"))]
    ELSE [ok |-> TRUE, run |-> image.run, images |-> <<>>,
          td |-> Tag("td", "padding: 0px; text-align: center;",
                     S("(insufficient data)"))]

\* the <td> of one cell; a list cell is rendered as a sparkline
Cell(col, outcome) ==
    CASE col.t = "int" ->
            [ok |-> TRUE, run |-> <<>>, images |-> <<>>,
             td |-> Tag("td", "padding: 3px 5px 3px 8px;text-align: right;",
                        col)]
      [] col.t = "float" ->
            [ok |-> TRUE, run |-> <<>>, images |-> <<>>,
             td |-> Tag("td", "padding: 3px 5px 3px 8px;text-align: right;",
                        Fmt2(col))]
      [] col.t = "list" -> SparklineCell(_render_sparkline(col.v, outcome))
      [] OTHER ->
            [ok |-> TRUE, run |-> <<>>, images |-> <<>>,
             td |-> Tag("td", "padding: 3px 5px 3px 8px;", col)]

\* the cells of the data rows of a table, row after row
TableCells(table, outcome) ==
    Flatten([r \in 1..(Len(table) - 1) |->
                [c \in 1..Len(table[r + 1]) |->
                    Cell(table[r + 1][c], outcome)]])

\* the part of the body made for one heading and its table, given the
\* cells of the table
SectionOf(heading, table, cells) ==
    LET h3 == IF heading # <<>>
              THEN <<Tag("h3", "", [t |-> "chars", v |-> heading])>>
              ELSE <<>>
        th == IF table # <<>> /\ table[1] # <<>>
              THEN [c \in 1..Len(table[1]) |-> Tag("th", "", table[1][c])]
              ELSE <<>>
    IN  [ok |-> \A n \in 1..Len(cells) : cells[n].ok,
         body |-> h3 \o th \o [n \in 1..Len(cells) |-> cells[n].td],
         images |-> Flatten([n \in 1..Len(cells) |-> cells[n].images]),
         run |-> Flatten([n \in 1..Len(cells) |-> cells[n].run])]

Section(heading, table, outcome) ==
    SectionOf(heading, table,
              IF table # <<>> /\ table[1] # <<>>
              THEN TableCells(table, outcome) ELSE <<>>)

\* hashlib.sha1(image).hexdigest(): one digest for each different image
sha1(image) == [t |-> "sha1", v |-> image]

\* the number of %s conversions in the body: the placeholders of the
\* images, and the texts of the tables that read as one
Conversions(body) ==
    Cardinality({n \in 1..Len(body) : body[n].text = S("%s")})

\* a text with its %% read as %: the column names that have one
Unescaped(text) ==
    CASE text = S("%% of total") -> S("% of total")
      [] text = S("added %%") -> S("added %")
      [] OTHER -> text

\* a formatting that puts the first tag in the place of every %s
Format_first(body, image_tags) ==
    [n \in 1..Len(body) |->
        IF body[n].text = S("%s")
        THEN [body[n] EXCEPT !.text = image_tags[1]]
        ELSE [body[n] EXCEPT !.text = Unescaped(body[n].text)]]

\* html % tuple(image_tags): the n-th %s becomes the n-th tag, %% becomes %
Format(body, image_tags) ==
    [n \in 1..Len(body) |->
        IF body[n].text = S("%s")
        THEN [body[n] EXCEPT
                 !.text = image_tags[Conversions(SubSeq(body, 1, n))]]
        ELSE [body[n] EXCEPT !.text = Unescaped(body[n].text)]]

_embed_images_to_mime(html, images) ==
    LET image_id(n) == [t |-> "cid", v |-> sha1(images[n])]
        image_tags == [n \in 1..Len(images) |->
                          [t |-> "img", v |-> image_id(n)]]
        image_mimes == [n \in 1..Len(images) |->
                           [content_id |-> image_id(n),
                            disposition |-> "inline",
                            payload |-> images[n]]]
    IN  IF images = <<>>
        THEN [mime |-> "text/html", html |-> Format(html, <<>>),
              parts |-> <<>>]
        ELSE [mime |-> "multipart/related",
              html |-> Format(html, image_tags), parts |-> image_mimes]

\* the message made of the sections of the body, or the error that ended
\* the call, and the gnuplot processes started on the way
Message(sections, subject) ==
    LET body == Flatten([n \in 1..Len(sections) |-> sections[n].body])
        images == Flatten([n \in 1..Len(sections) |-> sections[n].images])
        run == Flatten([n \in 1..Len(sections) |-> sections[n].run])
    IN  IF \E n \in 1..Len(sections) : ~sections[n].ok
        THEN [ok |-> FALSE, error |-> "OSError", run |-> run]
        \* html % tuple(image_tags) with more conversions than tags
        ELSE IF Conversions(body) # Len(images)
        THEN [ok |-> FALSE, error |-> "TypeError", run |-> run]
        ELSE [ok |-> TRUE, subject |-> subject,
              msg |-> _embed_images_to_mime(body, images), run |-> run]

\* the sections in the order of the sorted headings
Sections(tables, headings, outcome) ==
    [n \in 1..Len(headings) |->
        Section(headings[n], tables[headings[n]], outcome)]

\* the message handed to the mail relay
_send_email(tables, subject, outcome) ==
    Message(Sections(tables, Sorted(DOMAIN tables), outcome), subject)

----------------------------------------------------------------------------
(* email_instance_hours *)

ZeroDivisionError == [ok |-> FALSE, error |-> "ZeroDivisionError"]

\* data[:n]
Take(seq, n) == SubSeq(seq, 1, IF Len(seq) < n THEN Len(seq) ELSE n)

\* sum of row[field] over the rows, starting from 0.0
RECURSIVE SumFrom(_, _, _, _, _)
SumFrom(rows, field, i, j, start) ==
    IF i > j THEN start
    ELSE IF i = j THEN Add(start, rows[i][field])
    ELSE LET mid == (i + j) \div 2
         IN  CHOOSE total \in {SumFrom(rows, field, mid + 1, j, half) :
                                  half \in {SumFrom(rows, field, i, mid,
                                                    start)}} : TRUE

Sum(rows, field, n) == SumFrom(rows, field, 1, n, F(0, 1))

HistoryLength == 14

\* lambda row: row['url_route']
InstanceHoursKey == <<"url_route">>

\* the sparkline of the instance hours themselves, not divided by count_
InstanceHoursSparkline_hours(row, history) ==
    [n \in 1..Len(history) |->
        LET old_row == DictGet(history[n], row["url_route"])
        IN  IF Truthy(old_row)
            THEN Div(old_row.v["instance_hours"], I(1))
            ELSE None]

\* the sparkline with 0 for a route that a day does not have, as in the
\* out-of-memory reports
InstanceHoursSparkline_zero(row, history) ==
    [n \in 1..Len(history) |->
        LET old_row == DictGet(history[n], row["url_route"])
        IN  IF Truthy(old_row)
            THEN Div(old_row.v["instance_hours"], old_row.v["count_"])
            ELSE F(0, 1)]

\* the sparkline of a row: one sample for each day of the history
InstanceHoursSparkline(row, history) ==
    [n \in 1..Len(history) |->
        LET old_row == DictGet(history[n], row["url_route"])
        IN  IF Truthy(old_row)
            THEN Div(old_row.v["instance_hours"], old_row.v["count_"])
            ELSE None]

\* the derived columns with '%% of total' left as a fraction of 1
InstanceHoursMunge_fraction(rows, history) ==
    LET total_instance_hours == Sum(rows, "instance_hours", Len(rows))
        fields == {"url_route", "instance_hours", "count_", "%% of total",
                   "per 1k requests", "last 2 weeks (per request)"}
        munged(row) ==
            [f \in fields |->
                CASE f = "%% of total" ->
                        Div(row["instance_hours"], total_instance_hours)
                  [] f = "per 1k requests" ->
                        Mul(Div(row["instance_hours"], row["count_"]),
                            I(1000))
                  [] f = "last 2 weeks (per request)" ->
                        L(InstanceHoursSparkline(row, history))
                  [] OTHER -> row[f]]
    IN  IF rows # <<>> /\ total_instance_hours = F(0, 1)
        THEN ZeroDivisionError
        ELSE Return([n \in 1..Len(rows) |-> munged(rows[n])])

\* the rows with the derived columns added
InstanceHoursMunge(rows, history) ==
    LET total_instance_hours == Sum(rows, "instance_hours", Len(rows))
        fields == {"url_route", "instance_hours", "count_", "%% of total",
                   "per 1k requests", "last 2 weeks (per request)"}
        munged(row) ==
            [f \in fields |->
                CASE f = "%% of total" ->
                        Mul(Div(row["instance_hours"], total_instance_hours),
                            I(100))
                  [] f = "per 1k requests" ->
                        Mul(Div(row["instance_hours"], row["count_"]),
                            I(1000))
                  [] f = "last 2 weeks (per request)" ->
                        L(InstanceHoursSparkline(row, history))
                  [] OTHER -> row[f]]
    IN  IF rows # <<>> /\ total_instance_hours = F(0, 1)
        THEN ZeroDivisionError
        ELSE Return([n \in 1..Len(rows) |-> munged(rows[n])])

InstanceHoursOrder ==
    <<"%% of total", "instance_hours", "count_", "per 1k requests",
      "last 2 weeks (per request)", "url_route">>

InstanceHoursHeading(yyyymmdd) ==
    <<"I", "n", "s", "t", "a", "n", "c", "e", " ", "h", "o", "u", "r",
      "s", " ", "b", "y", " ", "r", "o", "u", "t", "e", " ", "f", "o",
      "r", " ">>
    \o _pretty_date(yyyymmdd)

----------------------------------------------------------------------------
(* email_out_of_memory_errors *)

\* lambda row: row['module_id']
OOMModuleKey == <<"module_id">>
\* lambda row: (row['module_id'], row['url_route'])
OOMRouteKey == <<"module_id", "url_route">>

\* the sample of one day for the row with the given key
OOMSample(old_data, key) ==
    LET old_row == DictGet(old_data, key)
    IN  IF Truthy(old_row) THEN old_row.v["count_"]
        \* data that day, just not on this key: it did not OOM
        ELSE IF Truthy([t |-> "dict", v |-> old_data]) THEN I(0)
        \* no data at all: a gap
        ELSE None

\* the rows with their 'last 2 weeks' column
OOMModuleMunge(rows, history) ==
    [r \in 1..Len(rows) |->
        [f \in DOMAIN rows[r] \cup {"last 2 weeks"} |->
            IF f = "last 2 weeks"
            THEN L([n \in 1..Len(history) |->
                       OOMSample(history[n], Call(OOMModuleKey, rows[r]))])
            ELSE rows[r][f]]]

OOMRouteMunge(rows, history) ==
    [r \in 1..Len(rows) |->
        [f \in DOMAIN rows[r] \cup {"last 2 weeks"} |->
            IF f = "last 2 weeks"
            THEN L([n \in 1..Len(history) |->
                       OOMSample(history[n], Call(OOMRouteKey, rows[r]))])
            ELSE rows[r][f]]]

OOMModuleOrder ==
    <<"count_", "last 2 weeks", "module_id", "numserved_10th",
      "numserved_50th", "numserved_90th">>

OOMRouteOrder == <<"count_", "last 2 weeks", "module_id", "url_route">>

OOMModuleHeading(yyyymmdd) ==
    <<"O", "O", "M", " ", "e", "r", "r", "o", "r", "s", " ", "b", "y",
      " ", "m", "o", "d", "u", "l", "e", " ", "f", "o", "r", " ">>
    \o _pretty_date(yyyymmdd)

OOMRouteHeading(yyyymmdd) ==
    <<"O", "O", "M", " ", "e", "r", "r", "o", "r", "s", " ", "b", "y",
      " ", "r", "o", "u", "t", "e", " ", "f", "o", "r", " ">>
    \o _pretty_date(yyyymmdd)

----------------------------------------------------------------------------
(* bounds and inputs *)

MaxRecords == 2     \* longest record sequence handed to the store
MaxSaves == 2       \* number of saves in one behaviour of the store
MaxWindow == 2      \* longest history window asked of the aggregator
FirstDay == 212     \* 2014-07-31, the earliest day a report is run for
NumDays == 3        \* number of consecutive days reports are run for

Days == FirstDay..(FirstDay + NumDays - 1)

Idle == [op |-> "idle"]

\* rows of the kinds _query_bigquery returns: strings, ints, floats and
\* the "(None)" marker, with differing field sets
StoreRows ==
    { [url_route |-> S("/a"), module_id |-> S("default"), count_ |-> I(100),
       instance_hours |-> F(10, 1)],
      [url_route |-> S("/b"), module_id |-> S("default"), count_ |-> I(3),
       instance_hours |-> S("(None)")] }

SeqsUpTo(set, n) == UNION {[1..k -> set] : k \in 0..n}

StoreData == SeqsUpTo(StoreRows, MaxRecords)
StoreReports == {"instance_hours", "rpcs"}

----------------------------------------------------------------------------
(* the store under arbitrary saves, followed by one read: a read leaves the *)
(* files as they are, so the reads in between the saves are left out       *)

InitStore ==
    /\ files = <<>>
    /\ dir_exists = FALSE
    /\ pc = "store"
    /\ date = 0
    /\ data = <<>>
    /\ historical_data = <<>>
    /\ email_content = <<>>
    /\ sent = <<>>
    /\ io_log = <<>>
    /\ gnuplot_runs = <<>>
    /\ arg = Idle
    /\ result = None
    /\ saves = 0

SaveDailyData(rows, report, d) ==
    /\ pc = "store"
    /\ saves < MaxSaves
    /\ files' = _save_daily_data(files, rows, report, strftime(d))
    /\ dir_exists' = TRUE
    /\ arg' = [op |-> "save", data |-> rows, report |-> report,
               yyyymmdd |-> strftime(d)]
    /\ result' = None
    /\ saves' = saves + 1
    /\ UNCHANGED <<pc, date, data, historical_data, email_content, sent,
                   io_log, gnuplot_runs>>

GetPastData(report, d) ==
    /\ pc = "store"
    /\ pc' = "loaded"
    /\ arg' = [op |-> "load", report |-> report, yyyymmdd |-> strftime(d)]
    /\ result' = _get_past_data(files, report, strftime(d))
    /\ UNCHANGED <<files, dir_exists, date, data, historical_data,
                   email_content, sent, io_log, gnuplot_runs, saves>>

ProcessPastData(report, end_date, history_length, field) ==
    /\ pc = "store"
    /\ pc' = "loaded"
    /\ arg' = [op |-> "history", report |-> report, end_date |-> end_date,
               history_length |-> history_length, field |-> field]
    /\ result' = L(_process_past_data(files, report, end_date, history_length,
                                      <<field>>))
    /\ UNCHANGED <<files, dir_exists, date, data, historical_data,
                   email_content, sent, io_log, gnuplot_runs, saves>>

NextStore ==
    \/ \E rows \in StoreData, report \in StoreReports, d \in Days :
          SaveDailyData(rows, report, d)
    \/ \E report \in StoreReports, d \in Days : GetPastData(report, d)
    \/ \E report \in StoreReports, d \in Days, w \in 0..MaxWindow,
          field \in {"url_route", "module_id"} :
          ProcessPastData(report, d, w, field)

SpecStore == InitStore /\ [][NextStore]_vars

\* C1: once _save_daily_data(records, report, date) has completed,
\* _get_past_data(report, date) returns exactly the saved record sequence
\* (same records, same order, same field values).
C1_RoundTrip ==
    arg.op = "save" =>
        _get_past_data(files, arg.report, arg.yyyymmdd) = L(arg.data)

\* a save of two different records has replaced an older snapshot
C1_Witness ==
    /\ arg.op = "save"
    /\ saves >= 2
    /\ Len(arg.data) = 2
    /\ arg.data[1] # arg.data[2]
    /\ Cardinality(DOMAIN files) = 1

\* the snapshot of the day that entry j of a history of n entries stands for
C2_Snapshot(j, n) ==
    _get_past_data(files, arg.report, strftime(arg.end_date - (n - j)))

\* the per-day index of a snapshot: every key of its records, mapped to the
\* last record that has the key; empty when there is no snapshot
C2_IsIndexOf(idx, snapshot) ==
    IF snapshot = None THEN idx = EmptyDict
    ELSE LET rows == snapshot.v
             K(i) == rows[i][arg.field]
         IN  /\ DOMAIN idx = {K(i) : i \in 1..Len(rows)}
             /\ \A i \in 1..Len(rows) :
                   (\A i2 \in (i + 1)..Len(rows) : K(i2) # K(i))
                       => idx[K(i)].v = rows[i]

----------------------------------------------------------------------------
(* _convert_table_rows_to_lists on arbitrary tables and column orders *)

MaxGridRows == 2    \* longest table handed to the shaper

GridFields == {"count_", "last 2 weeks", "url_route"}

\* the value of a field in the n-th variant of a row
GridValue(f, n) ==
    CASE f = "count_" -> I(n)
      [] f = "url_route" -> S(IF n = 1 THEN "/a" ELSE "/b")
      [] f = "last 2 weeks" -> L(<<None, I(n)>>)

GridRows == {[f \in fs |-> GridValue(f, n)] : fs \in SUBSET GridFields,
                                               n \in 1..2}

\* column orders: the sequences of distinct field names
GridOrders ==
    {o \in SeqsUpTo(GridFields, Cardinality(GridFields)) :
        /\ Len(o) >= 1
        /\ \A i, j \in 1..Len(o) : i # j => o[i] # o[j]}

InitGrid ==
    /\ files = <<>>
    /\ dir_exists = FALSE
    /\ pc = "call"
    /\ date = 0
    /\ data = <<>>
    /\ historical_data = <<>>
    /\ email_content = <<>>
    /\ sent = <<>>
    /\ io_log = <<>>
    /\ gnuplot_runs = <<>>
    /\ \E table \in SeqsUpTo(GridRows, MaxGridRows), order \in GridOrders :
          arg = [table |-> table, order |-> order]
    /\ result = None
    /\ saves = 0

ConvertTableRowsToLists ==
    /\ pc = "call"
    /\ result' = _convert_table_rows_to_lists(arg.table, arg.order)
    /\ pc' = "done"
    /\ UNCHANGED <<files, dir_exists, date, data, historical_data,
                   email_content, sent, io_log, gnuplot_runs, arg, saves>>

NextGrid == ConvertTableRowsToLists

SpecGrid == InitGrid /\ [][NextGrid]_vars

\* the fields named in the column order that row i of the table lacks
Lacking(i) == Range(arg.order) \ DOMAIN arg.table[i]
\* the fields of row i of the table that the column order does not name
Unnamed(i) == DOMAIN arg.table[i] \ Range(arg.order)
\* the names of the column order that row i has, in column order
RECURSIVE Present(_, _)
Present(i, j) ==
    IF j > Len(arg.order) THEN <<>>
    ELSE (IF arg.order[j] \in DOMAIN arg.table[i] THEN <<arg.order[j]>>
          ELSE <<>>) \o Present(i, j + 1)

\* C7 as stated: whenever at least one record lacks a field named in the
\* column order, _convert_table_rows_to_lists fails with an error.
C7_FailsOnMissingField ==
    (pc = "done" /\ \E i \in 1..Len(arg.table) : Lacking(i) # {})
        => ~result.ok

\* C7 as amended: the function fails exactly when some record has a field
\* that the column order does not name; otherwise it returns a grid in which
\* the row of a record holds the values of the named fields the record has,
\* in column order, so a record lacking k named fields gives a row k cells
\* shorter than the header.
C7_FailsOnUnnamedField ==
    pc = "done" =>
        /\ ~result.ok <=> \E i \in 1..Len(arg.table) : Unnamed(i) # {}
        /\ result.ok =>
              \A i \in 1..Len(arg.table) :
                  LET names == Present(i, 1)
                      row == result.value[i + 1]
                  IN  /\ Len(row) = Len(arg.order) - Cardinality(Lacking(i))
                      /\ row = [j \in 1..Len(names) |-> arg.table[i][names[j]]]

\* a grid was returned although a record lacks a named field: its row is
\* shorter than the header and its last value sits under the wrong column
C7_Witness ==
    /\ pc = "done"
    /\ result.ok
    /\ \E i \in 1..Len(arg.table) :
          /\ Lacking(i) # {}
          /\ DOMAIN arg.table[i] # {}
          /\ Len(result.value[i + 1]) < Len(result.value[1])
          /\ arg.order[Len(result.value[i + 1])] \notin DOMAIN arg.table[i]

\* every record has exactly the fields the column order names
Conformant ==
    \A i \in 1..Len(arg.table) : DOMAIN arg.table[i] = Range(arg.order)

\* C8: on a table whose records all have exactly the fields of the column
\* order, the grid's row 0 is the column order and row i+1, column j holds
\* field order[j] of input record i (aligned, input order kept).
C8_GridAligned ==
    (pc = "done" /\ Conformant) =>
        /\ result.ok
        /\ Len(result.value) = Len(arg.table) + 1
        /\ Len(result.value[1]) = Len(arg.order)
        /\ \A j \in 1..Len(arg.order) : result.value[1][j] = S(arg.order[j])
        /\ \A i \in 1..Len(arg.table) :
              /\ Len(result.value[i + 1]) = Len(arg.order)
              /\ \A j \in 1..Len(arg.order) :
                    result.value[i + 1][j] = arg.table[i][arg.order[j]]

\* two different records of three fields were converted
C8_Witness ==
    /\ pc = "done"
    /\ Conformant
    /\ Len(arg.table) = 2
    /\ Len(arg.order) = 3
    /\ arg.table[1] # arg.table[2]
    /\ result.ok

----------------------------------------------------------------------------
(* _render_sparkline on arbitrary series *)

MaxSeries == 4      \* longest series handed to the renderer

Samples == {None, I(0), I(2), F(1, 2)}

InitRender ==
    /\ files = <<>>
    /\ dir_exists = FALSE
    /\ pc = "call"
    /\ date = 0
    /\ data = <<>>
    /\ historical_data = <<>>
    /\ email_content = <<>>
    /\ sent = <<>>
    /\ io_log = <<>>
    /\ gnuplot_runs = <<>>
    /\ \E series \in SeqsUpTo(Samples, MaxSeries) : arg = [series |-> series]
    /\ result = None
    /\ saves = 0

RenderSparkline(outcome) ==
    /\ pc = "call"
    /\ LET r == _render_sparkline(arg.series, outcome)
       IN  /\ result' = [x \in DOMAIN r \ {"run"} |-> r[x]]
           /\ gnuplot_runs' = gnuplot_runs \o r.run
    /\ pc' = "done"
    /\ UNCHANGED <<files, dir_exists, date, data, historical_data,
                   email_content, sent, io_log, arg, saves>>

NextRender == \E outcome \in GnuplotOutcomes : RenderSparkline(outcome)

SpecRender == InitRender /\ [][NextRender]_vars

\* the number of samples of the series that are not absent
Present3(series) == Cardinality({n \in 1..Len(series) : series[n] # None})

\* C9: for a series with fewer than 3 non-absent samples (the empty and the
\* all-absent series included) _render_sparkline returns the "insufficient
\* data" outcome (None) and no gnuplot process is started.
C9_TooFewSamples ==
    (pc = "done" /\ Present3(arg.series) < 3) =>
        /\ result = [ok |-> TRUE, value |-> None]
        /\ gnuplot_runs = <<>>

\* a series of four samples, two of them absent, was rendered
C9_Witness ==
    /\ pc = "done"
    /\ Len(arg.series) = 4
    /\ Present3(arg.series) = 2
    /\ result.ok

----------------------------------------------------------------------------
(* email_instance_hours, run again and again for some day; every run goes  *)
(* through: query, save, history, munge, convert, send                     *)

\* results of the query: no traffic at all, the three routes of the
\* end-to-end scenario, a single route, and traffic that cost nothing
InstanceHoursResults ==
    { <<>>,
      << [url_route |-> S("/a"), instance_hours |-> F(10, 1),
          count_ |-> I(100)],
         [url_route |-> S("/b"), instance_hours |-> F(5, 1),
          count_ |-> I(50)],
         [url_route |-> S("/c"), instance_hours |-> F(2, 1),
          count_ |-> I(10)] >>,
      << [url_route |-> S("/a"), instance_hours |-> F(4, 1),
          count_ |-> I(8)] >>,
      << [url_route |-> S("/a"), instance_hours |-> F(0, 1),
          count_ |-> I(5)] >> }

InitInstanceHours ==
    /\ files = <<>>
    /\ dir_exists = FALSE
    /\ pc = "idle"
    /\ date = 0
    /\ data = <<>>
    /\ historical_data = <<>>
    /\ email_content = <<>>
    /\ sent = Idle
    /\ io_log = <<>>
    /\ gnuplot_runs = <<>>
    /\ arg = Idle
    /\ result = None
    /\ saves = 0

Write(report, yyyymmdd) ==
    [op |-> "write", file |-> _get_data_filename(report, yyyymmdd)]

\* the files _process_past_data looks for, the anchor day first
Reads(report, end_date, history_length) ==
    [n \in 1..(history_length + 1) |->
        LET filename == _get_data_filename(
                            report, strftime(MinusDays(end_date, n - 1)))
        IN  [op |-> "read", file |-> filename,
             found |-> filename \in DOMAIN files]]

\* data = _query_bigquery(query)
InstanceHours_Query(d, rows) ==
    /\ pc \in {"idle", "sent", "failed"}
    /\ pc' = "queried"
    /\ date' = d
    /\ data' = rows
    /\ arg' = [rows |-> rows]
    /\ historical_data' = <<>>
    /\ email_content' = <<>>
    /\ sent' = Idle
    /\ io_log' = <<>>
    /\ gnuplot_runs' = <<>>
    /\ UNCHANGED <<files, dir_exists, result, saves>>

\* a run that does not save what it queried
InstanceHours_Save_left_out ==
    /\ pc = "queried"
    /\ pc' = "saved"
    /\ UNCHANGED <<files, dir_exists, date, data, historical_data,
                   email_content, sent, io_log, gnuplot_runs, arg, result,
                   saves>>

\* _save_daily_data(data, "instance_hours", yyyymmdd)
InstanceHours_Save ==
    /\ pc = "queried"
    /\ pc' = "saved"
    /\ files' = _save_daily_data(files, data, "instance_hours",
                                 strftime(date))
    /\ dir_exists' = TRUE
    /\ io_log' = Append(io_log, Write("instance_hours", strftime(date)))
    /\ UNCHANGED <<date, data, historical_data, email_content, sent,
                   gnuplot_runs, arg, result, saves>>

\* historical_data = _process_past_data("instance_hours", date, 14, ...)
InstanceHours_History ==
    /\ pc = "saved"
    /\ pc' = "history"
    /\ historical_data' = _process_past_data(files, "instance_hours", date,
                                             HistoryLength, InstanceHoursKey)
    /\ io_log' = io_log \o Reads("instance_hours", date, HistoryLength)
    /\ UNCHANGED <<files, dir_exists, date, data, email_content, sent,
                   gnuplot_runs, arg, result, saves>>

\* the derived columns and the sparkline of every row
InstanceHours_Munge ==
    /\ pc = "history"
    /\ LET munged == InstanceHoursMunge(data, historical_data)
       IN  IF munged.ok
           THEN /\ data' = munged.value
                /\ pc' = "munged"
                /\ sent' = sent
           ELSE /\ data' = data
                /\ pc' = "failed"
                /\ sent' = munged
    /\ UNCHANGED <<files, dir_exists, date, historical_data, email_content,
                   io_log, gnuplot_runs, arg, result, saves>>

\* data = _convert_table_rows_to_lists(data, _ORDER)
InstanceHours_Convert ==
    /\ pc = "munged"
    /\ LET grid == _convert_table_rows_to_lists(data, InstanceHoursOrder)
       IN  IF grid.ok
           THEN /\ data' = grid.value
                /\ pc' = "converted"
                /\ sent' = sent
           ELSE /\ data' = data
                /\ pc' = "failed"
                /\ sent' = grid
    /\ UNCHANGED <<files, dir_exists, date, historical_data, email_content,
                   io_log, gnuplot_runs, arg, result, saves>>

\* the end of a call of _send_email that came to r: the mail is handed to
\* the relay, or the error ends the report
Deliver(r) ==
    /\ sent' = [x \in DOMAIN r \ {"run"} |-> r[x]]
    /\ gnuplot_runs' = gnuplot_runs \o r.run
    /\ pc' = IF r.ok THEN "sent" ELSE "failed"

\* _send_email({heading: data[:50]}, ...)
InstanceHours_Send(outcome) ==
    /\ pc = "converted"
    /\ email_content' = [h \in {InstanceHoursHeading(strftime(date))} |->
                            Take(data, 50)]
    /\ Deliver(_send_email(email_content', "Instance Hours by Route",
                           outcome))
    /\ UNCHANGED <<files, dir_exists, date, data, historical_data, io_log,
                   arg, result, saves>>

NextInstanceHours ==
    \/ \E d \in Days, rows \in InstanceHoursResults :
          InstanceHours_Query(d, rows)
    \/ InstanceHours_Save
    \/ InstanceHours_History
    \/ InstanceHours_Munge
    \/ InstanceHours_Convert
    \/ \E outcome \in GnuplotOutcomes : InstanceHours_Send(outcome)

SpecInstanceHours == InitInstanceHours /\ [][NextInstanceHours]_vars

\* the snapshot file of the instance-hours report for day d
IH_File(d) == _get_data_filename("instance_hours", strftime(d))

\* the saved records of day d (there is a snapshot for d)
IH_Snapshot(d) == _get_past_data(files, "instance_hours", strftime(d)).v

\* once the table is shaped: the sparkline series of the i-th data row, its
\* route, and the <td> made of its sparkline (the body starts with the
\* heading and the six header cells)
IH_Series(i) == data[i + 1][5].v
IH_Route(i) == data[i + 1][6]
IH_SparklineCell(i) == sent.msg.html[1 + 6 + 6 * (i - 1) + 5]

\* the positions of the samples of a series that are not absent
PresentAt(series) == {n \in 1..Len(series) : series[n] # None}

\* hours per request of a record
IH_Rate(row) == Div(row["instance_hours"], row["count_"])

\* the run for today has sent its mail, there are snapshots for exactly two
\* days, yesterday and today, and row i's route is in yesterday's snapshot
C3_Scenario(i) ==
    /\ pc = "sent"
    /\ DOMAIN files = {IH_File(date - 1), IH_File(date)}
    /\ \E r \in 1..Len(IH_Snapshot(date - 1)) :
          IH_Snapshot(date - 1)[r]["url_route"] = IH_Route(i)

\* the record of row i's route in yesterday's snapshot
C3_Yesterday(i) ==
    LET snap == IH_Snapshot(date - 1)
    IN  snap[CHOOSE r \in 1..Len(snap) : snap[r]["url_route"] = IH_Route(i)]

\* C3 as stated: with snapshots for exactly two consecutive days, the
\* series of day 2's row has exactly one non-absent sample, day 1's value,
\* and is shown as "(insufficient data)".
C3_OneSample ==
    \A i \in 1..(Len(data) - 1) :
        C3_Scenario(i) =>
            /\ \E n \in 1..Len(IH_Series(i)) :
                  /\ PresentAt(IH_Series(i)) = {n}
                  /\ IH_Series(i)[n] = IH_Rate(C3_Yesterday(i))
            /\ IH_SparklineCell(i).text = S("(insufficient data)")

\* C3 as amended: the series has 15 samples of which exactly two are not
\* absent, the last two: day 1's value followed by the value of day 2's own
\* snapshot, which the run saved before it read the history; two being
\* fewer than 3, the cell is shown as "(insufficient data)".
C3_TwoSamples ==
    \A i \in 1..(Len(data) - 1) :
        C3_Scenario(i) =>
            /\ Len(IH_Series(i)) = 15
            /\ PresentAt(IH_Series(i)) = {14, 15}
            /\ IH_Series(i)[14] = IH_Rate(C3_Yesterday(i))
            /\ IH_Series(i)[15] = IH_Rate(arg.rows[i])
            /\ IH_SparklineCell(i).text = S("(insufficient data)")

\* day 1 has 4 instance hours (0.5 per request), day 2 has other values
C3_Witness ==
    /\ Len(data) = 4
    /\ C3_Scenario(1)
    /\ C3_Yesterday(1)["instance_hours"] = F(4, 1)
    /\ IH_Series(1)[14] = F(1, 2)
    /\ IH_Series(1)[15] = F(1, 10)

\* C4 as stated: within a run the history is read before the snapshot of
\* the anchor day is written, so no read of a file follows the write of
\* that file by the same run.
C4_ReadThenWrite ==
    \A i, j \in 1..Len(io_log) :
        (/\ io_log[i].op = "write"
         /\ io_log[j].op = "read"
         /\ io_log[i].file = io_log[j].file) => j < i

\* C4 as amended: within a run for day D the store is accessed
\* write-then-read: the snapshot for (report, D) is written once, right
\* after the query and before any read; the history is read afterwards, its
\* first read finds that very file, and the newest entry of the history is
\* the index of the records this run has just saved.
C4_WriteThenRead ==
    /\ pc \in {"idle", "queried"} => io_log = <<>>
    /\ pc \notin {"idle", "queried"} =>
          /\ Len(io_log) >= 1
          /\ io_log[1] = Write("instance_hours", strftime(date))
          /\ \A n \in 2..Len(io_log) : io_log[n].op = "read"
    /\ pc = "saved" => Len(io_log) = 1
    /\ pc \notin {"idle", "queried", "saved"} =>
          /\ Len(io_log) = HistoryLength + 2
          /\ io_log[2] = [op |-> "read", file |-> io_log[1].file,
                          found |-> TRUE]
    /\ pc = "history" =>
          LET newest == historical_data[HistoryLength + 1]
          IN  /\ DOMAIN newest = {data[r]["url_route"] : r \in 1..Len(data)}
              /\ \A r \in 1..Len(data) :
                    newest[data[r]["url_route"]].v = data[r]

\* the history has been read and its newest entry holds the three routes
\* the run has just saved
C4_Witness ==
    /\ pc = "history"
    /\ Len(data) = 3
    /\ Cardinality(DOMAIN historical_data[HistoryLength + 1]) = 3
    /\ \E n \in 3..Len(io_log) : io_log[n].found

\* the run for day D has sent its mail, the query gave 3 records and there
\* is no snapshot for any of the 14 days before D
C5_Scenario ==
    /\ pc = "sent"
    /\ Len(arg.rows) = 3
    /\ \A n \in 1..HistoryLength : IH_File(date - n) \notin DOMAIN files

\* C5 as stated: with no prior history every row's sparkline has 14
\* samples, all absent, the cell is shown as "(insufficient data)" and no
\* image is embedded.
C5_FourteenAbsent ==
    C5_Scenario =>
        /\ \A i \in 1..3 :
              /\ Len(IH_Series(i)) = 14
              /\ PresentAt(IH_Series(i)) = {}
              /\ IH_SparklineCell(i).text = S("(insufficient data)")
        /\ sent.msg.parts = <<>>

\* C5 as amended: with no prior history every row's sparkline has 15
\* samples: 14 absent ones followed by the value of the row itself, read
\* back from the snapshot the run has just saved; one sample being fewer
\* than 3, the cell is shown as "(insufficient data)", gnuplot is not
\* started and no image is embedded.
C5_FourteenAbsentThenToday ==
    C5_Scenario =>
        /\ \A i \in 1..3 :
              /\ Len(IH_Series(i)) = 15
              /\ PresentAt(IH_Series(i)) = {15}
              /\ IH_Series(i)[15] = IH_Rate(arg.rows[i])
              /\ IH_SparklineCell(i).text = S("(insufficient data)")
        /\ sent.msg.parts = <<>>
        /\ sent.msg.mime = "text/html"
        /\ gnuplot_runs = <<>>

\* the scenario, with snapshots of later days in the store
C5_Witness ==
    /\ C5_Scenario
    /\ IH_Route(1) = S("/a")
    /\ date = FirstDay
    /\ Cardinality(DOMAIN files) >= 2

\* the table of the records (/a, 10.0, 100), (/b, 5.0, 50), (/c, 2.0, 10)
\* has been shaped
C6_Scenario ==
    /\ pc \in {"converted", "sent"}
    /\ Len(arg.rows) = 3
    /\ arg.rows[1] = [url_route |-> S("/a"), instance_hours |-> F(10, 1),
                      count_ |-> I(100)]

\* C6 as stated: the first data row is /a with '% of total' = 62.5 and
\* 'per 1k requests' = 100.0.
C6_FirstRow625 ==
    C6_Scenario =>
        /\ data[2][6] = S("/a")
        /\ data[2][1] = F(625, 10)
        /\ data[2][4] = F(100, 1)

\* C6 as amended: the first data row is /a with '% of total' = 1000/17
\* (58.82 to two places: 10.0 of 17.0 hours) and 'per 1k requests' = 100.0;
\* in every row '% of total' times the sum of instance_hours is 100 times
\* the row's instance_hours, and 'per 1k requests' times count_ is 1000
\* times the row's instance_hours.
C6_FirstRow5882 ==
    /\ C6_Scenario =>
          /\ data[2][6] = S("/a")
          /\ data[2][1] = F(1000, 17)
          /\ Fmt2(data[2][1]).v = 5882
          /\ data[2][4] = F(100, 1)
    /\ pc \in {"converted", "sent"} =>
          /\ data[1][1] = S("%% of total")
          /\ data[1][4] = S("per 1k requests")
          /\ \A i \in 1..Len(arg.rows) :
                LET total == Sum(arg.rows, "instance_hours", Len(arg.rows))
                    hours == arg.rows[i]["instance_hours"]
                IN  /\ data[i + 1][6] = arg.rows[i]["url_route"]
                    /\ Mul(data[i + 1][1], total) = Mul(hours, I(100))
                    /\ Mul(data[i + 1][4], arg.rows[i]["count_"])
                           = Mul(hours, I(1000))

\* the three records have been shaped and mailed
C6_Witness ==
    /\ C6_Scenario
    /\ pc = "sent"
    /\ Len(data) = 4
    /\ data[4][6] = S("/c")

----------------------------------------------------------------------------
(* email_out_of_memory_errors, run again and again for some day; every run *)
(* goes through query, save, history and shaping twice, by module and by   *)
(* route, and then sends both tables in one mail                           *)

OOMByModule == "out_of_memory_errors_by_module"
OOMByRoute == "out_of_memory_errors_by_route"

ModuleRow(module, count) ==
    [count_ |-> I(count), module_id |-> S(module), numserved_10th |-> I(10),
     numserved_50th |-> I(50), numserved_90th |-> I(90)]

RouteRow(module, route, count) ==
    [count_ |-> I(count), module_id |-> S(module), url_route |-> S(route)]

\* what the two queries give for one day: no error at all, errors of the
\* default module on two routes, errors of the batch module
OOMResults ==
    { [by_module |-> <<>>, by_route |-> <<>>],
      [by_module |-> <<ModuleRow("default", 3)>>,
       by_route |-> <<RouteRow("default", "/a", 2),
                      RouteRow("default", "/b", 1)>>],
      [by_module |-> <<ModuleRow("batch", 2)>>,
       by_route |-> <<RouteRow("batch", "/a", 2)>>] }

InitOOM ==
    /\ files = <<>>
    /\ dir_exists = FALSE
    /\ pc = "idle"
    /\ date = 0
    /\ data = <<>>
    /\ historical_data = <<>>
    /\ email_content = <<>>
    /\ sent = Idle
    /\ io_log = <<>>
    /\ gnuplot_runs = <<>>
    /\ arg = Idle
    /\ result = None
    /\ saves = 0

\* data = _query_bigquery(query), the errors by module
OOM_QueryModule(d, rows) ==
    /\ pc \in {"idle", "sent", "failed"}
    /\ pc' = "module_queried"
    /\ date' = d
    /\ data' = rows.by_module
    /\ arg' = rows
    /\ historical_data' = <<>>
    /\ email_content' = <<>>
    /\ sent' = Idle
    /\ io_log' = <<>>
    /\ gnuplot_runs' = <<>>
    /\ UNCHANGED <<files, dir_exists, result, saves>>

OOM_SaveModule ==
    /\ pc = "module_queried"
    /\ pc' = "module_saved"
    /\ files' = _save_daily_data(files, data, OOMByModule, strftime(date))
    /\ dir_exists' = TRUE
    /\ io_log' = Append(io_log, Write(OOMByModule, strftime(date)))
    /\ UNCHANGED <<date, data, historical_data, email_content, sent,
                   gnuplot_runs, arg, result, saves>>

OOM_HistoryModule ==
    /\ pc = "module_saved"
    /\ pc' = "module_history"
    /\ historical_data' = _process_past_data(files, OOMByModule, date,
                                             HistoryLength, OOMModuleKey)
    /\ io_log' = io_log \o Reads(OOMByModule, date, HistoryLength)
    /\ UNCHANGED <<files, dir_exists, date, data, email_content, sent,
                   gnuplot_runs, arg, result, saves>>

\* the sparklines, the grid and email_content = {heading: data}
OOM_ShapeModule ==
    /\ pc = "module_history"
    /\ LET grid == _convert_table_rows_to_lists(
                       OOMModuleMunge(data, historical_data), OOMModuleOrder)
       IN  IF grid.ok
           THEN /\ data' = grid.value
                /\ email_content' =
                       [h \in {OOMModuleHeading(strftime(date))} |->
                           grid.value]
                /\ pc' = "module_shaped"
                /\ sent' = sent
           ELSE /\ data' = data
                /\ email_content' = email_content
                /\ pc' = "failed"
                /\ sent' = grid
    /\ UNCHANGED <<files, dir_exists, date, historical_data, io_log,
                   gnuplot_runs, arg, result, saves>>

\* data = _query_bigquery(query), the errors by module and route
OOM_QueryRoute ==
    /\ pc = "module_shaped"
    /\ pc' = "route_queried"
    /\ data' = arg.by_route
    /\ UNCHANGED <<files, dir_exists, date, historical_data, email_content,
                   sent, io_log, gnuplot_runs, arg, result, saves>>

OOM_SaveRoute ==
    /\ pc = "route_queried"
    /\ pc' = "route_saved"
    /\ files' = _save_daily_data(files, data, OOMByRoute, strftime(date))
    /\ io_log' = Append(io_log, Write(OOMByRoute, strftime(date)))
    /\ UNCHANGED <<dir_exists, date, data, historical_data, email_content,
                   sent, gnuplot_runs, arg, result, saves>>

OOM_HistoryRoute ==
    /\ pc = "route_saved"
    /\ pc' = "route_history"
    /\ historical_data' = _process_past_data(files, OOMByRoute, date,
                                             HistoryLength, OOMRouteKey)
    /\ io_log' = io_log \o Reads(OOMByRoute, date, HistoryLength)
    /\ UNCHANGED <<files, dir_exists, date, data, email_content, sent,
                   gnuplot_runs, arg, result, saves>>

\* the sparklines, the grid and email_content[heading] = data
OOM_ShapeRoute ==
    /\ pc = "route_history"
    /\ LET grid == _convert_table_rows_to_lists(
                       OOMRouteMunge(data, historical_data), OOMRouteOrder)
           heading == OOMRouteHeading(strftime(date))
       IN  IF grid.ok
           THEN /\ data' = grid.value
                /\ email_content' =
                       [h \in DOMAIN email_content \cup {heading} |->
                           IF h = heading THEN grid.value
                           ELSE email_content[h]]
                /\ pc' = "route_shaped"
                /\ sent' = sent
           ELSE /\ data' = data
                /\ email_content' = email_content
                /\ pc' = "failed"
                /\ sent' = grid
    /\ UNCHANGED <<files, dir_exists, date, historical_data, io_log,
                   gnuplot_runs, arg, result, saves>>

\* _send_email(email_content, ...)
OOM_Send(outcome) ==
    /\ pc = "route_shaped"
    /\ Deliver(_send_email(email_content, "OOM errors", outcome))
    /\ UNCHANGED <<files, dir_exists, date, data, historical_data,
                   email_content, io_log, arg, result, saves>>

NextOOM ==
    \/ \E d \in Days, rows \in OOMResults : OOM_QueryModule(d, rows)
    \/ OOM_SaveModule
    \/ OOM_HistoryModule
    \/ OOM_ShapeModule
    \/ OOM_QueryRoute
    \/ OOM_SaveRoute
    \/ OOM_HistoryRoute
    \/ OOM_ShapeRoute
    \/ \E outcome \in GnuplotOutcomes : OOM_Send(outcome)

SpecOOM == InitOOM /\ [][NextOOM]_vars

\* the sample a row with the given key must show for a day, by the three
\* cases: the count of the key's record in the day's snapshot, 0 when the
\* day has a snapshot without the key, absent when the day has no snapshot
C10_Expected(snapshot, key, fields) ==
    IF snapshot = None THEN None
    ELSE LET with == {r \in 1..Len(snapshot.v) :
                         \A n \in 1..Len(fields) :
                             snapshot.v[r][fields[n]] = key[n]}
         IN  IF with = {} THEN I(0)
             ELSE snapshot.v[CHOOSE r \in with :
                                 \A r2 \in with : r2 <= r]["count_"]

\* C10: in both out-of-memory tables the sample of every row for every day
\* of the window is the day's count for the row's key, 0 when that day has
\* a snapshot without the key, and absent only when that day has no
\* snapshot; a day whose snapshot was saved, even with no record, is never
\* shown as a day without data.
C10_ThreeCases ==
    pc = "sent" =>
        LET by_module == email_content[OOMModuleHeading(strftime(date))]
            by_route == email_content[OOMRouteHeading(strftime(date))]
            day(n) == strftime(date - (HistoryLength + 1 - n))
        IN  /\ \A i \in 2..Len(by_module) : \A n \in 1..(HistoryLength + 1) :
                  by_module[i][2].v[n] =
                      C10_Expected(_get_past_data(files, OOMByModule, day(n)),
                                   <<by_module[i][3]>>, <<"module_id">>)
            /\ \A i \in 2..Len(by_route) : \A n \in 1..(HistoryLength + 1) :
                  by_route[i][2].v[n] =
                      C10_Expected(_get_past_data(files, OOMByRoute, day(n)),
                                   <<by_route[i][3], by_route[i][4]>>,
                                   <<"module_id", "url_route">>)

----------------------------------------------------------------------------
(* _send_email on arbitrary tables *)

MaxMailRows == 1    \* most data rows of one table handed to the mailer
MaxMailTables == 2  \* most tables handed to the mailer in one call

\* the headings: none, and two that sorted() puts in the other order than
\* they are written here
MailHeadings == { <<>>, <<"B">>, <<"A", "b">> }

MailHeader == <<S("url_route"), S("last 2 weeks")>>

\* rows of a route and its sparkline: two samples, three samples (twice,
\* one of them with a route that reads as a conversion), three samples and
\* a gap
MailRows ==
    { <<S("/a"), L(<<None, I(1), I(2)>>)>>,
      <<S("/a"), L(<<I(1), I(2), I(3)>>)>>,
      <<S("%s"), L(<<I(1), I(2), I(3)>>)>>,
      <<S("/b"), L(<<I(3), None, I(1), I(2)>>)>> }

\* a table is None, or the header row and the data rows
MailTables ==
    {<<>>} \cup {<<MailHeader>> \o rows : rows \in SeqsUpTo(MailRows, MaxMailRows)}

MailContents ==
    UNION {[hs -> MailTables] :
              hs \in {h \in SUBSET MailHeadings :
                         Cardinality(h) \in 1..MaxMailTables}}

InitMail ==
    /\ files = <<>>
    /\ dir_exists = FALSE
    /\ pc = "idle"
    /\ date = 0
    /\ data = <<>>
    /\ historical_data = <<>>
    /\ email_content = <<>>
    /\ sent = Idle
    /\ io_log = <<>>
    /\ gnuplot_runs = <<>>
    /\ arg = Idle
    /\ result = None
    /\ saves = 0

\* _send_email(tables, None, to, subject='bq data')
SendEmail(tables, outcome) ==
    /\ pc = "idle"
    /\ arg' = [tables |-> tables, outcome |-> outcome]
    /\ email_content' = tables
    /\ Deliver(_send_email(tables, "bq data", outcome))
    /\ UNCHANGED <<files, dir_exists, date, data, historical_data, io_log,
                   result, saves>>

NextMail ==
    /\ pc = "idle"
    /\ \E tables \in MailContents, outcome \in GnuplotOutcomes :
          SendEmail(tables, outcome)

SpecMail == InitMail /\ [][NextMail]_vars

\* the cells of the data rows of all the tables, in the order of the
\* document: table after table by heading, row after row
MailCells(tables) ==
    LET headings == Sorted(DOMAIN tables)
    IN  Flatten([n \in 1..Len(headings) |->
                    Flatten([r \in 1..(Len(tables[headings[n]]) - 1) |->
                                tables[headings[n]][r + 1]])])

\* the sparkline cells among them
MailSparklines(tables) ==
    SelectSeq(MailCells(tables), LAMBDA col : col.t = "list")

\* C11: when a sparkline series has at least 3 non-absent samples and
\* gnuplot returns no output, rendering fails with a hard error
\* (RenderError) that aborts the report: no email is sent and the cell is
\* not displayed as "(insufficient data)".
C11_EmptyOutputAborts ==
    (/\ pc \in {"sent", "failed"}
     /\ arg.outcome = "empty"
     /\ \E k \in 1..Len(MailSparklines(arg.tables)) :
            Present3(MailSparklines(arg.tables)[k].v) >= 3)
        => /\ pc = "failed"
           /\ ~sent.ok

----------------------------------------------------------------------------
(* the reports that mail the top routes only: email_instance_hours,        *)
(* email_rpcs and email_memory_increases, each run once for some day on a  *)
(* query result of few rows or of about as many as are mailed              *)

MaxBeyond == 1      \* most rows a query result has beyond those mailed

\* the numbers of rows of a query result, around a limit
RowCounts(limit) == {0, 1} \cup ((limit - 1)..(limit + MaxBeyond))

\* the route of the i-th row of a query result
Route(i) == S("/route" \o ToString(i))

\* a result of i rows of the instance-hours query
InstanceHoursRows(n) ==
    [i \in 1..n |->
        [url_route |-> Route(i), instance_hours |-> F(2, 1),
         count_ |-> I(10)]]

\* email_rpcs

RpcsFields == <<"Get", "Put", "Next", "RunQuery", "Delete">>

Micropennies == "&mu;&cent;"

\* lambda row: row['url_route']
RpcsKey == <<"url_route">>

\* a result of n rows of the RPC query
RpcsRows(n) ==
    [i \in 1..n |->
        [url_route |-> Route(i), requests |-> I(10), rpc_Get |-> I(20),
         rpc_Put |-> I(5), rpc_Next |-> I(0), rpc_RunQuery |-> I(10),
         rpc_Delete |-> I(0), rpc_cost |-> I(500)]]

\* the sparkline of a row: the cost per request of each day of the history
RpcsSparkline(row, history) ==
    [n \in 1..Len(history) |->
        LET old_row == DictGet(history[n], row["url_route"])
        IN  IF Truthy(old_row) /\ "rpc_cost" \in DOMAIN old_row.v
            THEN Div(Mul(old_row.v["rpc_cost"], F(1, 1)),
                     old_row.v["requests"])
            ELSE None]

\* the rows with the per-request columns added and rpc_cost deleted
RpcsMunge(rows, history) ==
    LET per_req == {RpcsFields[k] \o "/req" : k \in 1..Len(RpcsFields)}
        stat(f) == RpcsFields[CHOOSE k \in 1..Len(RpcsFields) :
                                  f = RpcsFields[k] \o "/req"]
        sparkline == "last 2 weeks (" \o Micropennies \o "/req)"
        fields(row) == ((DOMAIN row \cup per_req
                            \cup {Micropennies \o "/req", "$", sparkline})
                        \ {"rpc_cost"})
        munged(row) ==
            [f \in fields(row) |->
                CASE f \in per_req ->
                        Div(Mul(row["rpc_" \o stat(f)], F(1, 1)),
                            row["requests"])
                  [] f = Micropennies \o "/req" ->
                        Div(Mul(row["rpc_cost"], F(1, 1)), row["requests"])
                  [] f = "$" -> Mul(row["rpc_cost"], F(1, 100000000))
                  [] f = sparkline -> L(RpcsSparkline(row, history))
                  [] OTHER -> row[f]]
    IN  [r \in 1..Len(rows) |-> munged(rows[r])]

RpcsOrder ==
    <<"url_route", "requests", "$", Micropennies \o "/req",
      "last 2 weeks (" \o Micropennies \o "/req)">>
    \o [k \in 1..Len(RpcsFields) |-> "rpc_" \o RpcsFields[k]]
    \o [k \in 1..Len(RpcsFields) |-> RpcsFields[k] \o "/req"]

RpcsHeading(yyyymmdd) ==
    <<"R", "P", "C", " ", "c", "a", "l", "l", "s", " ", "b", "y", " ",
      "r", "o", "u", "t", "e", " ", "f", "o", "r", " ">>
    \o _pretty_date(yyyymmdd)

\* email_memory_increases

\* lambda row: (row['module'], row['url_route'])
MemoryIncreasesKey == <<"module", "url_route">>

min_increase_in_mb == I(1)

\* a result of the memory query: a route of the batch module, a route of
\* the default module that added less than is reported, and n more routes
\* of the default module
MemoryIncreasesRows(n) ==
    [i \in 1..(n + 2) |->
        [count_ |-> I(10), url_route |-> Route(i),
         module |-> IF i = 1 THEN S("batch") ELSE S("default"),
         added_avg |-> IF i = 2 THEN F(1, 20) ELSE F(3, 10),
         added_98th |-> F(2, 1),
         added_total |-> IF i = 2 THEN F(1, 2) ELSE F(3, 1)]]

ModuleChars(module) ==
    CASE module = S("default") -> <<"d", "e", "f", "a", "u", "l", "t">>
      [] module = S("batch") -> <<"b", "a", "t", "c", "h">>

MemoryIncreasesHeading(module, yyyymmdd) ==
    <<"M", "e", "m", "o", "r", "y", " ", "i", "n", "c", "r", "e", "a",
      "s", "e", "s", " ", "b", "y", " ", "r", "o", "u", "t", "e", " ",
      "f", "o", "r", " ">>
    \o ModuleChars(module)
    \o <<" ", "m", "o", "d", "u", "l", "e", " ", "o", "n", " ">>
    \o _pretty_date(yyyymmdd)

MemoryIncreasesOrder ==
    <<"count_", "added_avg", "last 2 weeks (avg)", "added_98th",
      "added_total", "added %%", "url_route">>

\* by_module[heading]: the rows of the module that added more than
\* min_increase_in_mb, in the order of the query
MemoryIncreasesByModule(rows, module) ==
    SelectSeq(rows, LAMBDA row : /\ Less(min_increase_in_mb,
                                          row["added_total"])
                                 /\ row["module"] = module)

\* the sparkline of a row: the average of each day of the history
MemoryIncreasesSparkline(row, history) ==
    [n \in 1..Len(history) |->
        LET old_row == DictGet(history[n],
                               Call(MemoryIncreasesKey, row))
        IN  IF Truthy(old_row) THEN old_row.v["added_avg"] ELSE None]

\* the rows of one module with 'added %%' and the sparkline added and the
\* module deleted
MemoryIncreasesMunge(rows, history) ==
    LET total == Sum(rows, "added_total", Len(rows))
        fields(row) == ((DOMAIN row
                            \cup {"added %%", "last 2 weeks (avg)"})
                        \ {"module"})
        munged(row) ==
            [f \in fields(row) |->
                CASE f = "added %%" ->
                        Mul(Div(row["added_total"], total), I(100))
                  [] f = "last 2 weeks (avg)" ->
                        L(MemoryIncreasesSparkline(row, history))
                  [] OTHER -> row[f]]
    IN  [r \in 1..Len(rows) |-> munged(rows[r])]

\* by_module once every table is shaped: for every heading,
\* _convert_table_rows_to_lists(by_module[heading][:50], _ORDER)
MemoryIncreasesTables(rows, history, yyyymmdd) ==
    LET modules == {rows[r]["module"] :
                       r \in {r \in 1..Len(rows) :
                                 Less(min_increase_in_mb,
                                      rows[r]["added_total"])}}
        grid(module) ==
            _convert_table_rows_to_lists(
                Take(MemoryIncreasesMunge(
                         MemoryIncreasesByModule(rows, module), history),
                     50),
                MemoryIncreasesOrder)
        module_of(heading) ==
            CHOOSE module \in modules :
                heading = MemoryIncreasesHeading(module, yyyymmdd)
    IN  IF \E module \in modules : ~grid(module).ok
        THEN ValueError
        ELSE Return([heading \in {MemoryIncreasesHeading(module, yyyymmdd) :
                                     module \in modules} |->
                        grid(module_of(heading)).value])

\* data = _query_bigquery(query)
Rpcs_Query(d, rows) ==
    /\ pc \in {"idle", "sent", "failed"}
    /\ pc' = "rpcs_queried"
    /\ date' = d
    /\ data' = rows
    /\ arg' = [report |-> "rpcs", rows |-> rows]
    /\ historical_data' = <<>>
    /\ email_content' = <<>>
    /\ sent' = Idle
    /\ io_log' = <<>>
    /\ gnuplot_runs' = <<>>
    /\ UNCHANGED <<files, dir_exists, result, saves>>

\* _save_daily_data(data, "rpcs", yyyymmdd)
Rpcs_Save ==
    /\ pc = "rpcs_queried"
    /\ pc' = "rpcs_saved"
    /\ files' = _save_daily_data(files, data, "rpcs", strftime(date))
    /\ dir_exists' = TRUE
    /\ io_log' = Append(io_log, Write("rpcs", strftime(date)))
    /\ UNCHANGED <<date, data, historical_data, email_content, sent,
                   gnuplot_runs, arg, result, saves>>

\* historical_data = _process_past_data("rpcs", date, 14, ...)
Rpcs_History ==
    /\ pc = "rpcs_saved"
    /\ pc' = "rpcs_history"
    /\ historical_data' = _process_past_data(files, "rpcs", date,
                                             HistoryLength, RpcsKey)
    /\ io_log' = io_log \o Reads("rpcs", date, HistoryLength)
    /\ UNCHANGED <<files, dir_exists, date, data, email_content, sent,
                   gnuplot_runs, arg, result, saves>>

\* the per-request columns and the sparkline of every row
Rpcs_Munge ==
    /\ pc = "rpcs_history"
    /\ pc' = "rpcs_munged"
    /\ data' = RpcsMunge(data, historical_data)
    /\ UNCHANGED <<files, dir_exists, date, historical_data, email_content,
                   sent, io_log, gnuplot_runs, arg, result, saves>>

\* data = _convert_table_rows_to_lists(data, _ORDER)
Rpcs_Convert ==
    /\ pc = "rpcs_munged"
    /\ LET grid == _convert_table_rows_to_lists(data, RpcsOrder)
       IN  IF grid.ok
           THEN /\ data' = grid.value
                /\ pc' = "rpcs_converted"
                /\ sent' = sent
           ELSE /\ data' = data
                /\ pc' = "failed"
                /\ sent' = grid
    /\ UNCHANGED <<files, dir_exists, date, historical_data, email_content,
                   io_log, gnuplot_runs, arg, result, saves>>

\* _send_email({heading: data[:75]}, ...)
Rpcs_Send(outcome) ==
    /\ pc = "rpcs_converted"
    /\ email_content' = [h \in {RpcsHeading(strftime(date))} |->
                            Take(data, 75)]
    /\ Deliver(_send_email(email_content', "RPC calls by route", outcome))
    /\ UNCHANGED <<files, dir_exists, date, data, historical_data, io_log,
                   arg, result, saves>>

\* data = _query_bigquery(query)
MemoryIncreases_Query(d, rows) ==
    /\ pc \in {"idle", "sent", "failed"}
    /\ pc' = "memory_queried"
    /\ date' = d
    /\ data' = rows
    /\ arg' = [report |-> "memory_increases", rows |-> rows]
    /\ historical_data' = <<>>
    /\ email_content' = <<>>
    /\ sent' = Idle
    /\ io_log' = <<>>
    /\ gnuplot_runs' = <<>>
    /\ UNCHANGED <<files, dir_exists, result, saves>>

\* _save_daily_data(data, "memory_increases", yyyymmdd)
MemoryIncreases_Save ==
    /\ pc = "memory_queried"
    /\ pc' = "memory_saved"
    /\ files' = _save_daily_data(files, data, "memory_increases", strftime(date))
    /\ dir_exists' = TRUE
    /\ io_log' = Append(io_log, Write("memory_increases", strftime(date)))
    /\ UNCHANGED <<date, data, historical_data, email_content, sent,
                   gnuplot_runs, arg, result, saves>>

\* historical_data = _process_past_data("memory_increases", date, 14, ...)
MemoryIncreases_History ==
    /\ pc = "memory_saved"
    /\ pc' = "memory_history"
    /\ historical_data' = _process_past_data(files, "memory_increases", date,
                                             HistoryLength, MemoryIncreasesKey)
    /\ io_log' = io_log \o Reads("memory_increases", date, HistoryLength)
    /\ UNCHANGED <<files, dir_exists, date, data, email_content, sent,
                   gnuplot_runs, arg, result, saves>>

\* by_module: the rows by heading, munged, cut to 50 and converted
MemoryIncreases_Shape ==
    /\ pc = "memory_history"
    /\ LET by_module == MemoryIncreasesTables(data, historical_data,
                                              strftime(date))
       IN  IF by_module.ok
           THEN /\ email_content' = by_module.value
                /\ pc' = "memory_shaped"
                /\ sent' = sent
           ELSE /\ email_content' = email_content
                /\ pc' = "failed"
                /\ sent' = by_module
    /\ UNCHANGED <<files, dir_exists, date, data, historical_data, io_log,
                   gnuplot_runs, arg, result, saves>>

\* _send_email(by_module, ...)
MemoryIncreases_Send(outcome) ==
    /\ pc = "memory_shaped"
    /\ Deliver(_send_email(email_content, "Memory Increases by Route",
                           outcome))
    /\ UNCHANGED <<files, dir_exists, date, data, historical_data,
                   email_content, io_log, arg, result, saves>>

InitTopRoutes == InitInstanceHours

NextTopRoutes ==
    \/ \E d \in Days, n \in RowCounts(50) :
          pc = "idle" /\ InstanceHours_Query(d, InstanceHoursRows(n))
    \/ InstanceHours_Save
    \/ InstanceHours_History
    \/ InstanceHours_Munge
    \/ InstanceHours_Convert
    \/ \E outcome \in GnuplotOutcomes : InstanceHours_Send(outcome)
    \/ \E d \in Days, n \in RowCounts(75) :
          pc = "idle" /\ Rpcs_Query(d, RpcsRows(n))
    \/ Rpcs_Save
    \/ Rpcs_History
    \/ Rpcs_Munge
    \/ Rpcs_Convert
    \/ \E outcome \in GnuplotOutcomes : Rpcs_Send(outcome)
    \/ \E d \in Days, n \in RowCounts(50) :
          pc = "idle" /\ MemoryIncreases_Query(d, MemoryIncreasesRows(n))
    \/ MemoryIncreases_Save
    \/ MemoryIncreases_History
    \/ MemoryIncreases_Shape
    \/ \E outcome \in GnuplotOutcomes : MemoryIncreases_Send(outcome)

SpecTopRoutes == InitTopRoutes /\ [][NextTopRoutes]_vars

Min(a, b) == IF a < b THEN a ELSE b

\* the table is the header row and the first min(limit, n) of the n rows,
\* in their order (col: the column of the route)
TopRows(table, limit, rows, col, order) ==
    /\ table[1] = HeaderRow(order)
    /\ Len(table) = 1 + Min(limit, Len(rows))
    /\ \A k \in 1..Min(limit, Len(rows)) :
          table[k + 1][col] = rows[k]["url_route"]

\* C12: every report selects its top-K rows before shaping, so the table
\* that is emailed is the header row followed by exactly min(K, n) data
\* rows, the first ones in query order, with K = 50 for the instance-hours
\* and memory-increase reports and K = 75 for the RPC report (n: the rows
\* available for the table).
C12_TopRows ==
    pc = "sent" =>
        LET report == IF "report" \in DOMAIN arg THEN arg.report
                      ELSE "instance_hours"
            yyyymmdd == strftime(date)
        IN  CASE report = "instance_hours" ->
                    TopRows(email_content[InstanceHoursHeading(yyyymmdd)],
                            50, arg.rows, 6, InstanceHoursOrder)
              [] report = "rpcs" ->
                    TopRows(email_content[RpcsHeading(yyyymmdd)],
                            75, arg.rows, 1, RpcsOrder)
              [] report = "memory_increases" ->
                    \A module \in {S("default"), S("batch")} :
                        LET heading == MemoryIncreasesHeading(module,
                                                              yyyymmdd)
                        IN  heading \in DOMAIN email_content =>
                                TopRows(email_content[heading], 50,
                                        MemoryIncreasesByModule(arg.rows,
                                                                module),
                                        7, MemoryIncreasesOrder)

----------------------------------------------------------------------------
(* the store, key by key *)

\* what _get_past_data(report, day d) returns on the file system fs
Loaded(fs, report, d) == _get_past_data(fs, report, strftime(d))

\* C13: after any sequence of saves, loading (report, date) returns the
\* records of the most recent save to that key, a save to one key leaves
\* the loaded value of every other key unchanged, and a key never saved
\* loads as None: before any save every key loads as None, and every save
\* changes what its own key loads to the saved records and nothing else.
C13_LastWriteWins ==
    /\ \A report \in StoreReports, d \in Days :
          Loaded(files, report, d) = None
    /\ [][saves' = saves + 1 =>
             \A report \in StoreReports, d \in Days :
                 Loaded(files', report, d) =
                     IF report = arg'.report /\ strftime(d) = arg'.yyyymmdd
                     THEN L(arg'.data)
                     ELSE Loaded(files, report, d)]_vars

\* the second save went to the key of the first and left one file, which
\* holds its records
C13_Witness ==
    /\ saves = 2
    /\ arg.op = "save"
    /\ arg.data # <<>>
    /\ Cardinality(DOMAIN files) = 1

----------------------------------------------------------------------------
(* the composed message *)

\* the sparkline cells of the mail that come to an image: three samples
\* or more, and gnuplot wrote one
MailRendered ==
    SelectSeq(MailSparklines(arg.tables),
              LAMBDA col : Present3(col.v) >= 3 /\ arg.outcome = "png")

\* the image gnuplot makes of a sparkline cell
MailImage(col) == Png(GnuplotScript(col.v, Existing(col.v)))

\* the <td>s of the sparkline cells and the headings in the message
MailSparklineTds ==
    SelectSeq(sent.msg.html,
              LAMBDA frag : /\ frag.tag = "td"
                            /\ frag.style = "padding: 0px; text-align: center;")

MailH3s == SelectSeq(sent.msg.html, LAMBDA frag : frag.tag = "h3")

\* the number of sparkline cells up to the k-th that came to an image
MailRank(k) ==
    Len(SelectSeq(SubSeq(MailSparklines(arg.tables), 1, k),
                  LAMBDA col : Present3(col.v) >= 3 /\ arg.outcome = "png"))

\* C14: in the composed message the tables appear sorted by name; each
\* sparkline cell that rendered to an image is replaced by an inline image
\* tag and each one that did not by the text "(insufficient data)"; there
\* are as many embedded image parts as rendered sparkline cells (equal
\* images embedded once per occurrence); and the k-th image tag in document
\* order references the content ID, the hash of the bytes, of the image of
\* the k-th such cell.
C14_MessageComposed ==
    pc = "sent" =>
        LET cells == MailSparklines(arg.tables)
            tds == MailSparklineTds
            parts == sent.msg.parts
        IN  /\ \A i, j \in 1..Len(MailH3s) :
                  i < j => StrLess(MailH3s[i].text.v, MailH3s[j].text.v)
            /\ Len(MailH3s) = Cardinality(DOMAIN arg.tables \ {<<>>})
            /\ Len(tds) = Len(cells)
            /\ \A k \in 1..Len(cells) :
                  IF Present3(cells[k].v) >= 3 /\ arg.outcome = "png"
                  THEN /\ tds[k].text.t = "img"
                       /\ tds[k].text.v = parts[MailRank(k)].content_id
                       /\ tds[k].text.v.v = sha1(MailImage(cells[k]))
                  ELSE tds[k].text = S("(insufficient data)")
            /\ Len(parts) = Len(MailRendered)
            /\ \A k \in 1..Len(parts) :
                  /\ parts[k].payload = MailImage(MailRendered[k])
                  /\ parts[k].content_id.v = sha1(parts[k].payload)
                  /\ parts[k].disposition = "inline"

\* a mail of two tables was composed whose sparklines came to two
\* different images, the first of them under the heading written last
C14_Witness ==
    /\ pc = "sent"
    /\ DOMAIN arg.tables = {<<"B">>, <<"A", "b">>}
    /\ Len(sent.msg.parts) = 2
    /\ sent.msg.parts[1] # sent.msg.parts[2]
    /\ sent.msg.parts[1].payload = MailImage(arg.tables[<<"A", "b">>][2][2])

----------------------------------------------------------------------------
(* the script handed to gnuplot *)

\* the samples of the series that are not absent
PresentSamples(series) == {series[n] : n \in {n \in 1..Len(series) :
                                                 series[n] # None}}

\* x = factor/100 * y, for two numbers
Scaled(x, factor, y) ==
    Num(x)[1] * 100 * Num(y)[2] = factor * Num(y)[1] * Num(x)[2]

\* C15: for every series with at least 3 non-absent samples, the vertical
\* range passed to gnuplot is ymin = -0.05 * max(samples) and
\* ymax = 1.05 * max(samples), the maximum taken over the non-absent
\* samples only (the factors scaled to the integers -5 and 105).
C15_VerticalRange ==
    (pc = "done" /\ Present3(arg.series) >= 3 /\ result.ok) =>
        /\ Len(gnuplot_runs) = 1
        /\ \E m \in PresentSamples(arg.series) :
              /\ \A sample \in PresentSamples(arg.series) : ~Less(m, sample)
              /\ Scaled(gnuplot_runs[1].ymax, 105, m)
              /\ Scaled(gnuplot_runs[1].ymin, -5, m)

\* a series of four samples with a gap, its largest sample 2 neither the
\* oldest nor the newest, went to gnuplot with the range [-0.1, 2.1]
C15_Witness ==
    /\ pc = "done"
    /\ result.ok
    /\ Len(arg.series) = 4
    /\ Present3(arg.series) = 3
    /\ arg.series[1] # I(2)
    /\ arg.series[4] \notin {I(2), None}
    /\ Len(gnuplot_runs) = 1
    /\ gnuplot_runs[1].ymax = F(21, 10)
    /\ gnuplot_runs[1].ymin = F(-1, 10)

\* C16: for every series of length n with at least 3 non-absent samples,
\* every non-absent sample is emitted as a plot point whose x coordinate
\* lies inside the declared horizontal range [xmin, xmax] = [1, n], and
\* every absent sample emits no point: no present sample, the oldest one
\* included, falls outside the plotted range.
C16_PointsInRange ==
    (pc = "done" /\ Present3(arg.series) >= 3 /\ gnuplot_runs # <<>>) =>
        LET script == gnuplot_runs[1]
        IN  /\ script.xmin = 1
            /\ script.xmax = Len(arg.series)
            /\ Len(script.data_lines) = Len(arg.series)
            /\ \A n \in 1..Len(arg.series) :
                  IF arg.series[n] = None
                  THEN script.data_lines[n].t = "blank"
                  ELSE /\ script.data_lines[n].t = "point"
                       /\ script.data_lines[n].v[2] = arg.series[n]
                       /\ script.data_lines[n].v[1] >= script.xmin
                       /\ script.data_lines[n].v[1] <= script.xmax

====
